---- MODULE Spec2Model ----
(***************************************************************************)
(* Model of the payment engine: Account (src/src/account.rs), the client   *)
(* ledger Client and its Disputes (src/src/client.rs), Transaction         *)
(* (src/src/transaction.rs) and Engine (src/src/lib.rs).                   *)
(*                                                                         *)
(* Amounts are fastnum::D256 values rescaled to 4 fractional digits; the   *)
(* model counts them in units of 0.0001, so that addition, subtraction and *)
(* comparison are the exact integer ones.  Rounding of D256 beyond its     *)
(* coefficient width is outside the model.                                 *)
(***************************************************************************)
EXTENDS Integers, FiniteSets, Sequences, TLC

\* ------------------------------------------------------------------ bounds
\* Transaction ids (u32 in the source) that the streams draw from.
MaxTxId == 3
\* Largest Deposit/Withdrawal amount the streams draw from.
MaxAmount == 2
\* Width-scaled stand-in for u16::MAX: the engine has NumClientSlots slots.
NumClientSlots == 2
\* Saturation of the per-id counter of balance-changing transactions.
MaxChanges == 2

\* Transaction ids and largest amount of the input records of whole runs.
MaxRunTxId == 1
MaxRunAmount == 1

\* Saturation of the counter of resolved disputes of one deposit.
MaxCycles == 2

\* Transaction ids of the streams whose refused withdrawals are observed.
MaxRejectedTxId == 2

TxIds == 1..MaxTxId
Amounts == 0..MaxAmount
ClientSlots == 0..(NumClientSlots - 1)
\* Every value of the client id type (u16): 0..u16::MAX.
ClientIds == 0..NumClientSlots
\* The client ids that the records of whole runs carry: the first slot, the
\* last slot and u16::MAX.
RunClients == {0, NumClientSlots - 1, NumClientSlots}
RunTxIds == 1..MaxRunTxId
\* The amounts that the records of whole runs carry.
RunAmounts == {-1} \cup 1..MaxRunAmount
\* The client whose ledger the single-client streams drive.
LedgerClients == {1}
\* The deposit ids whose resolved disputes are counted.
CycleTxIds == {1}

\* ------------------------------------------------------------ Option<T>
None == [tag |-> "None"]
Some(v) == [tag |-> "Some", value |-> v]

\* ---------------------------------------------------------- transactions
DepositPayload(amount) == [amount |-> amount, type |-> "Deposit"]
WithdrawalPayload(amount) == [amount |-> amount, type |-> "Withdrawal"]
DisputePayload == [type |-> "Dispute"]
ResolvePayload == [type |-> "Resolve"]
ChargebackPayload == [type |-> "Chargeback"]

Transaction(id, client, payload) == [id |-> id, client |-> client, payload |-> payload]

\* deposited_amount that takes the amount of a Withdrawal as well.
deposited_amount_of_any_kind(tx) ==
    IF tx.payload.type \in {"Deposit", "Withdrawal"}
    THEN Some(tx.payload.amount) ELSE None

\* Transaction::deposited_amount
deposited_amount(tx) ==
    IF tx.payload.type = "Deposit" THEN Some(tx.payload.amount) ELSE None

\* --------------------------------------------------------------- Account
\* Account::default
Account_default == [available |-> 0, held |-> 0, locked |-> FALSE]

total_funds(acc) == acc.available + acc.held
available_funds(acc) == acc.available
held_funds(acc) == acc.held
is_locked(acc) == acc.locked

\* Result<(), ()> of a mutator, together with the account it leaves.
Ok(acc) == [ok |-> TRUE, account |-> acc]
Err(acc) == [ok |-> FALSE, account |-> acc]

deposit(acc, amount) == [acc EXCEPT !.available = @ + amount]

\* withdraw without the check of the available funds.
withdraw_unchecked(acc, amount) ==
    Ok([acc EXCEPT !.available = @ - amount])

\* withdraw that checks the amount against the total funds.
withdraw_from_total(acc, amount) ==
    IF acc.available + acc.held >= amount
    THEN Ok([acc EXCEPT !.available = @ - amount])
    ELSE Err(acc)

withdraw(acc, amount) ==
    IF acc.available >= amount
    THEN Ok([acc EXCEPT !.available = @ - amount])
    ELSE Err(acc)

\* hold_funds without the check of the available funds.
hold_funds_unchecked(acc, amount) ==
    Ok([acc EXCEPT !.available = @ - amount, !.held = @ + amount])

hold_funds(acc, amount) ==
    IF acc.available >= amount
    THEN Ok([acc EXCEPT !.available = @ - amount, !.held = @ + amount])
    ELSE Err(acc)

\* release_funds that locks the account as chargeback does.
release_funds_locks(acc, amount) ==
    [acc EXCEPT !.held = @ - amount, !.available = @ + amount, !.locked = TRUE]

\* release_funds that takes the funds from held and credits nothing.
release_funds_forgets_available(acc, amount) ==
    [acc EXCEPT !.held = @ - amount]

release_funds(acc, amount) ==
    [acc EXCEPT !.held = @ - amount, !.available = @ + amount]

\* chargeback that locks the account and leaves the held funds in place.
Account_chargeback_keeps_held(acc, amount) ==
    [acc EXCEPT !.locked = TRUE]

\* chargeback that takes the funds from available instead of held.
Account_chargeback_from_available(acc, amount) ==
    [acc EXCEPT !.available = @ - amount, !.locked = TRUE]

\* chargeback that takes the funds from held and leaves the account unlocked.
Account_chargeback_no_lock(acc, amount) ==
    [acc EXCEPT !.held = @ - amount]

Account_chargeback(acc, amount) ==
    [acc EXCEPT !.held = @ - amount, !.locked = TRUE]

\* -------------------------------------------------------------- Disputes
Disputes_default == [txs |-> {}, chargebacks |-> {}]

is_disputed(d, tx) == tx \in d.txs \/ tx \in d.chargebacks

dispute(d, tx) == [d EXCEPT !.txs = @ \cup {tx}]

\* resolve that records the id as charged back.
resolve_leaves_tombstone(d, tx) ==
    [d EXCEPT !.txs = @ \ {tx}, !.chargebacks = @ \cup {tx}]

\* resolve that leaves the id in the disputed set.
resolve_keeps_dispute(d, tx) == d

resolve(d, tx) == [d EXCEPT !.txs = @ \ {tx}]

\* chargeback that drops the id and records no tombstone for it.
Disputes_chargeback_no_tombstone(d, tx) ==
    [d EXCEPT !.txs = @ \ {tx}]

\* chargeback that records the tombstone and leaves the id disputed.
Disputes_chargeback_keeps_disputed(d, tx) ==
    IF tx \in d.txs THEN [d EXCEPT !.chargebacks = @ \cup {tx}] ELSE d

Disputes_chargeback(d, tx) ==
    LET found == tx \in d.txs
    IN  IF found
        THEN [d EXCEPT !.txs = @ \ {tx}, !.chargebacks = @ \cup {tx}]
        ELSE d

\* ---------------------------------------------------------------- Client
\* The empty HashMap<u32, Transaction>.
EmptyTxs == [id \in {} |-> None]

Client_default ==
    [account |-> Account_default, txs |-> EmptyTxs, disputes |-> Disputes_default]

contains_key(txs, id) == id \in DOMAIN txs

\* HashMap::get
get(txs, id) == IF id \in DOMAIN txs THEN Some(txs[id]) ELSE None

\* HashMap::insert (an existing entry is overwritten)
insert(txs, id, tx) ==
    [k \in DOMAIN txs \cup {id} |-> IF k = id THEN tx ELSE txs[k]]

\* disputed_transaction without the filter on the dispute sets.
disputed_transaction_unfiltered(cl, id) ==
    IF id \in DOMAIN cl.txs THEN Some(cl.txs[id]) ELSE None

\* Client::disputed_transaction
disputed_transaction(cl, id) ==
    IF is_disputed(cl.disputes, id) THEN get(cl.txs, id) ELSE None

\* The Deposit arm without the insertion into the history.
process_deposit_unrecorded(cl, tx) ==
    IF tx.id \in DOMAIN cl.txs
    THEN cl
    ELSE [cl EXCEPT !.account.available = @ + tx.payload.amount]

\* The Deposit arm without the check for a duplicate id.
process_deposit_no_duplicate_check(cl, tx) ==
    [cl EXCEPT !.account.available = @ + tx.payload.amount,
               !.txs = [k \in DOMAIN @ \cup {tx.id} |->
                          IF k = tx.id THEN tx ELSE @[k]]]

process_deposit(cl, tx) ==
    IF contains_key(cl.txs, tx.id)
    THEN cl
    ELSE [cl EXCEPT !.account = deposit(@, tx.payload.amount),
                    !.txs = insert(@, tx.id, tx)]

\* The Withdrawal arm that records the transaction whatever withdraw returns.
process_withdrawal_always_recorded(cl, tx) ==
    IF tx.id \in DOMAIN cl.txs
    THEN cl
    ELSE [cl EXCEPT !.account.available =
                      IF @ >= tx.payload.amount THEN @ - tx.payload.amount ELSE @,
                    !.txs = [k \in DOMAIN @ \cup {tx.id} |->
                               IF k = tx.id THEN tx ELSE @[k]]]

\* The Withdrawal arm without the check for a duplicate id.
process_withdrawal_no_duplicate_check(cl, tx) ==
    IF cl.account.available >= tx.payload.amount
    THEN [cl EXCEPT !.account.available = @ - tx.payload.amount,
                    !.txs = [k \in DOMAIN @ \cup {tx.id} |->
                               IF k = tx.id THEN tx ELSE @[k]]]
    ELSE cl

process_withdrawal(cl, tx) ==
    IF contains_key(cl.txs, tx.id)
    THEN cl
    ELSE LET r == withdraw(cl.account, tx.payload.amount)
         IN  IF r.ok
             THEN [cl EXCEPT !.account = r.account, !.txs = insert(@, tx.id, tx)]
             ELSE [cl EXCEPT !.account = r.account]

\* The Dispute arm without the check that the id is not disputed already.
process_dispute_no_disputed_check(cl, tx) ==
    IF tx.id \in DOMAIN cl.txs /\ cl.txs[tx.id].payload.type = "Deposit"
    THEN IF cl.account.available >= cl.txs[tx.id].payload.amount
         THEN [cl EXCEPT !.account.available = @ - cl.txs[tx.id].payload.amount,
                         !.account.held = @ + cl.txs[tx.id].payload.amount,
                         !.disputes.txs = @ \cup {tx.id}]
         ELSE cl
    ELSE cl

process_dispute(cl, tx) ==
    LET original_tx == get(cl.txs, tx.id)
        amount == IF original_tx = None THEN None
                  ELSE deposited_amount(original_tx.value)
    IN  IF ~is_disputed(cl.disputes, tx.id) /\ original_tx # None /\ amount # None
        THEN LET r == hold_funds(cl.account, amount.value)
             IN  IF r.ok
                 THEN [cl EXCEPT !.account = r.account,
                                 !.disputes = dispute(@, tx.id)]
                 ELSE [cl EXCEPT !.account = r.account]
        ELSE cl

\* The Resolve arm that also drops the resolved deposit from the history.
process_resolve_drops_entry(cl, tx) ==
    IF is_disputed(cl.disputes, tx.id) /\ tx.id \in DOMAIN cl.txs
       /\ cl.txs[tx.id].payload.type = "Deposit"
    THEN [cl EXCEPT !.account.held = @ - cl.txs[tx.id].payload.amount,
                    !.account.available = @ + cl.txs[tx.id].payload.amount,
                    !.disputes.txs = @ \ {tx.id},
                    !.txs = [k \in DOMAIN @ \ {tx.id} |-> @[k]]]
    ELSE cl

process_resolve(cl, tx) ==
    LET original_tx == disputed_transaction(cl, tx.id)
        amount == IF original_tx = None THEN None
                  ELSE deposited_amount(original_tx.value)
    IN  IF original_tx # None /\ amount # None
        THEN [cl EXCEPT !.account = release_funds(@, amount.value),
                        !.disputes = resolve(@, tx.id)]
        ELSE cl

process_chargeback(cl, tx) ==
    LET original_tx == disputed_transaction(cl, tx.id)
        amount == IF original_tx = None THEN None
                  ELSE deposited_amount(original_tx.value)
    IN  IF original_tx # None /\ amount # None
        THEN [cl EXCEPT !.account = Account_chargeback(@, amount.value),
                        !.disputes = Disputes_chargeback(@, tx.id)]
        ELSE cl

\* process_transaction without the early return on a locked account.
Client_process_transaction_ignores_lock(cl, tx) ==
    CASE tx.payload.type = "Deposit" -> process_deposit(cl, tx)
      [] tx.payload.type = "Withdrawal" -> process_withdrawal(cl, tx)
      [] tx.payload.type = "Dispute" -> process_dispute(cl, tx)
      [] tx.payload.type = "Resolve" -> process_resolve(cl, tx)
      [] tx.payload.type = "Chargeback" -> process_chargeback(cl, tx)

\* Client::process_transaction
Client_process_transaction(cl, tx) ==
    IF is_locked(cl.account)
    THEN cl
    ELSE CASE tx.payload.type = "Deposit" -> process_deposit(cl, tx)
           [] tx.payload.type = "Withdrawal" -> process_withdrawal(cl, tx)
           [] tx.payload.type = "Dispute" -> process_dispute(cl, tx)
           [] tx.payload.type = "Resolve" -> process_resolve(cl, tx)
           [] tx.payload.type = "Chargeback" -> process_chargeback(cl, tx)

\* ----------------------------------------------------------------- state
VARIABLES
    clients,                 \* Engine.clients: slot -> Client
    seem_clients,            \* Engine.seem_clients
    panicked,                \* the run aborted in Engine::process_transaction
    deposits_seen,           \* per client: ids of the Deposits of the stream
    deposits_seen_unlocked,  \* ... of those that arrived at an unlocked account
    chargeback_accepted,     \* per client: a Chargeback found its id disputed
    balance_changes,         \* per client and id: Deposits/Withdrawals carrying
                             \* the id that changed the balances (saturating)
    rejected_withdrawals,    \* per client: <<id, recorded>> of the Withdrawals
                             \* whose amount exceeded available; recorded tells
                             \* whether the history held the id already
    resolves,                \* per client and counted id: the Resolves that
                             \* released its funds (saturating)
    pc,                      \* where main is: reading, writing, done, error
    output,                  \* the records main has written
    appeared,                \* client ids of the transactions handed to the engine
    shard,                   \* per client id: its transactions alone, applied
                             \* in order to a fresh ledger
    malformed_seen,          \* a malformed record has been read
    negative_handed          \* a Deposit or Withdrawal with a negative amount
                             \* has been handed to the engine

engine_vars == <<clients, seem_clients, panicked>>

stream_vars == <<deposits_seen, deposits_seen_unlocked, chargeback_accepted,
                 balance_changes>>

main_vars == <<pc, output, appeared, shard, malformed_seen, negative_handed>>

vars == <<engine_vars, stream_vars, rejected_withdrawals, resolves, main_vars>>

\* Engine::default
Init ==
    /\ clients = [c \in ClientSlots |-> Client_default]
    /\ seem_clients = {}
    /\ panicked = FALSE
    /\ deposits_seen = [c \in ClientSlots |-> {}]
    /\ deposits_seen_unlocked = [c \in ClientSlots |-> {}]
    /\ chargeback_accepted = [c \in ClientSlots |-> FALSE]
    /\ balance_changes = [c \in ClientSlots |-> [id \in TxIds |-> 0]]
    /\ rejected_withdrawals = [c \in ClientSlots |-> {}]
    /\ resolves = [c \in ClientSlots |-> [id \in CycleTxIds |-> 0]]
    /\ pc = "reading"
    /\ output = <<>>
    /\ appeared = {}
    /\ shard = [c \in ClientIds |-> Client_default]
    /\ malformed_seen = FALSE
    /\ negative_handed = FALSE

IsDW(tx) == tx.payload.type \in {"Deposit", "Withdrawal"}

\* The observations of the stream that the properties speak about.
Observe(tx) ==
    LET c == tx.client
        before == clients[c]
        after == Client_process_transaction(before, tx)
    IN  /\ deposits_seen' =
             IF tx.payload.type = "Deposit"
             THEN [deposits_seen EXCEPT ![c] = @ \cup {tx.id}]
             ELSE deposits_seen
        /\ deposits_seen_unlocked' =
             IF tx.payload.type = "Deposit" /\ ~before.account.locked
             THEN [deposits_seen_unlocked EXCEPT ![c] = @ \cup {tx.id}]
             ELSE deposits_seen_unlocked
        /\ chargeback_accepted' =
             IF /\ tx.payload.type = "Chargeback"
                /\ ~before.account.locked
                /\ tx.id \in before.disputes.txs
             THEN [chargeback_accepted EXCEPT ![c] = TRUE]
             ELSE chargeback_accepted
        /\ balance_changes' =
             IF /\ IsDW(tx)
                /\ \/ after.account.available # before.account.available
                   \/ after.account.held # before.account.held
             THEN [balance_changes EXCEPT ![c][tx.id] =
                     IF @ < MaxChanges THEN @ + 1 ELSE @]
             ELSE balance_changes

\* The Withdrawals whose amount exceeded the available funds, per client.
ObserveRejected(tx) ==
    LET c == tx.client
        before == clients[c]
    IN  rejected_withdrawals' =
            IF /\ tx.payload.type = "Withdrawal"
               /\ tx.payload.amount > before.account.available
            THEN [rejected_withdrawals EXCEPT
                    ![c] = @ \cup {<<tx.id, contains_key(before.txs, tx.id)>>}]
            ELSE rejected_withdrawals

\* Engine::process_transaction
Engine_process_transaction(tx) ==
    /\ ~panicked
    /\ seem_clients' = seem_clients \cup {tx.client}
    /\ IF tx.client \in DOMAIN clients
       THEN /\ clients' = [clients EXCEPT
                             ![tx.client] = Client_process_transaction(@, tx)]
            /\ panicked' = FALSE
       ELSE /\ clients' = clients
            /\ panicked' = TRUE

\* A record of the stream of one client, with the observations of the stream.
StreamStep(tx) ==
    /\ Engine_process_transaction(tx)
    /\ Observe(tx)
    /\ UNCHANGED <<rejected_withdrawals, resolves, main_vars>>

\* One step of the stream per kind of record.
Deposit ==
    \E c \in LedgerClients, id \in TxIds, a \in Amounts :
        StreamStep(Transaction(id, c, DepositPayload(a)))

Withdrawal ==
    \E c \in LedgerClients, id \in TxIds, a \in Amounts :
        StreamStep(Transaction(id, c, WithdrawalPayload(a)))

Dispute ==
    \E c \in LedgerClients, id \in TxIds :
        StreamStep(Transaction(id, c, DisputePayload))

Resolve ==
    \E c \in LedgerClients, id \in TxIds :
        StreamStep(Transaction(id, c, ResolvePayload))

Chargeback ==
    \E c \in LedgerClients, id \in TxIds :
        StreamStep(Transaction(id, c, ChargebackPayload))

Next == Deposit \/ Withdrawal \/ Dispute \/ Resolve \/ Chargeback

Spec == Init /\ [][Next]_vars

\* Streams that hold Deposit and Withdrawal records only.
NextDW == Deposit \/ Withdrawal

SpecDW == Init /\ [][NextDW]_vars

\* The records a stream can hold for client c.
LedgerTransactions(c) ==
    {Transaction(id, c, DepositPayload(a)) : id \in TxIds, a \in Amounts}
    \cup {Transaction(id, c, WithdrawalPayload(a)) : id \in TxIds, a \in Amounts}
    \cup {Transaction(id, c, p) :
              id \in TxIds, p \in {DisputePayload, ResolvePayload, ChargebackPayload}}

\* A record of the stream of one client, with the refused withdrawals observed.
RejectedStep ==
    \E c \in LedgerClients :
      \E tx \in {t \in LedgerTransactions(c) : t.id <= MaxRejectedTxId} :
        /\ Engine_process_transaction(tx)
        /\ ObserveRejected(tx)
        /\ UNCHANGED <<stream_vars, resolves, main_vars>>

SpecRejected == Init /\ [][RejectedStep]_vars

\* The Resolves that found their id disputed, per client and counted id.
ObserveResolves(tx) ==
    LET c == tx.client
        before == clients[c]
    IN  resolves' =
            IF /\ tx.payload.type = "Resolve"
               /\ tx.id \in CycleTxIds
               /\ ~before.account.locked
               /\ tx.id \in before.disputes.txs
            THEN [resolves EXCEPT ![c][tx.id] = IF @ < MaxCycles THEN @ + 1 ELSE @]
            ELSE resolves

\* A record of the stream of one client, with the resolved disputes counted.
CycleStep ==
    \E c \in LedgerClients : \E tx \in LedgerTransactions(c) :
        /\ Engine_process_transaction(tx)
        /\ ObserveResolves(tx)
        /\ UNCHANGED <<stream_vars, rejected_withdrawals, main_vars>>

SpecCycle == Init /\ [][CycleStep]_vars

\* ------------------------------------------------ input records (main.rs)
\* The text of one field of a CSV record.
Number(n) == [value |-> n, text |-> "number"]
Garbage == [text |-> "garbage"]
Empty == [text |-> "empty"]

KindTags == {"deposit", "withdrawal", "dispute", "resolve", "chargeback"}

\* The input records: amount, client, tx and kind tag fields.  "transfer" is
\* a tag the engine does not know, NumClientSlots + 1 a number above u16::MAX,
\* -1 a number that is no u32.
RawRecords ==
    [amount : {Number(a) : a \in RunAmounts} \cup {Empty, Garbage},
     client : {Number(c) : c \in RunClients \cup {NumClientSlots + 1}} \cup {Garbage},
     tx : {Number(id) : id \in RunTxIds \cup {-1}} \cup {Garbage},
     typ : KindTags \cup {"transfer"}]

\* Result<T, E> of the deserializer.
ParseOk(v) == [value |-> v, ok |-> TRUE]
ParseErr == [ok |-> FALSE]

\* u16 field of Inner
parse_u16(field) ==
    IF field.text = "number" /\ field.value \in ClientIds
    THEN ParseOk(field.value) ELSE ParseErr

\* u32 field of Inner
parse_u32(field) ==
    IF field.text = "number" /\ field.value >= 0
    THEN ParseOk(field.value) ELSE ParseErr

\* Option<fastnum::D256> field of Inner; the amounts of the records have at
\* most 4 fractional digits, so that rescale(4) keeps their value.
parse_amount(field) ==
    CASE field.text = "empty" -> ParseOk(None)
      [] field.text = "number" -> ParseOk(Some(field.value))
      [] OTHER -> ParseErr

\* deserialize that takes a missing amount of a Deposit or Withdrawal as zero.
Transaction_deserialize_defaults_amount(rec) ==
    IF \/ rec.client.text # "number" \/ rec.client.value \notin ClientIds
       \/ rec.tx.text # "number" \/ rec.tx.value < 0
       \/ rec.amount.text = "garbage"
       \/ rec.typ \notin KindTags
    THEN ParseErr
    ELSE ParseOk(Transaction(rec.tx.value, rec.client.value,
             CASE rec.typ = "deposit" ->
                    DepositPayload(IF rec.amount.text = "empty" THEN 0
                                   ELSE rec.amount.value)
               [] rec.typ = "withdrawal" ->
                    WithdrawalPayload(IF rec.amount.text = "empty" THEN 0
                                      ELSE rec.amount.value)
               [] rec.typ = "dispute" -> DisputePayload
               [] rec.typ = "resolve" -> ResolvePayload
               [] rec.typ = "chargeback" -> ChargebackPayload))

\* <Transaction as Deserialize>::deserialize
Transaction_deserialize(rec) ==
    LET client == parse_u16(rec.client)
        tx == parse_u32(rec.tx)
        amount == parse_amount(rec.amount)
    IN  IF ~client.ok \/ ~tx.ok \/ ~amount.ok
        THEN ParseErr
        ELSE CASE rec.typ = "deposit" ->
                    IF amount.value = None THEN ParseErr
                    ELSE ParseOk(Transaction(tx.value, client.value,
                                             DepositPayload(amount.value.value)))
               [] rec.typ = "withdrawal" ->
                    IF amount.value = None THEN ParseErr
                    ELSE ParseOk(Transaction(tx.value, client.value,
                                             WithdrawalPayload(amount.value.value)))
               [] rec.typ = "dispute" ->
                    ParseOk(Transaction(tx.value, client.value, DisputePayload))
               [] rec.typ = "resolve" ->
                    ParseOk(Transaction(tx.value, client.value, ResolvePayload))
               [] rec.typ = "chargeback" ->
                    ParseOk(Transaction(tx.value, client.value, ChargebackPayload))
               [] OTHER -> ParseErr

\* A record that cannot be mapped to a transaction: an unparseable field (a
\* client that is no u16, a tx that is no u32, an amount that is no decimal),
\* an unrecognized kind tag, a Deposit or Withdrawal without an amount.
Malformed(rec) ==
    \/ rec.client.text # "number" \/ rec.client.value \notin ClientIds
    \/ rec.tx.text # "number" \/ rec.tx.value < 0
    \/ rec.amount.text = "garbage"
    \/ rec.typ \notin KindTags
    \/ rec.typ \in {"deposit", "withdrawal"} /\ rec.amount.text = "empty"

\* ------------------------------------------------------ Engine::accounts
RECURSIVE SetToSortedSeq(_)
\* The iteration order of the BitSet: ascending.
SetToSortedSeq(S) ==
    IF S = {} THEN <<>>
    ELSE LET m == CHOOSE x \in S : \A y \in S : x <= y
         IN  <<m>> \o SetToSortedSeq(S \ {m})

\* Engine::accounts: the entries the iterator yields, and whether it faults on
\* indexing clients with an id that has no slot.
accounts ==
    LET ids == SetToSortedSeq(seem_clients)
        routable == {i \in 1..Len(ids) : \A j \in 1..i : ids[j] \in DOMAIN clients}
    IN  [entries |-> [i \in routable |-> <<ids[i], clients[ids[i]].account>>],
         fault |-> Cardinality(routable) < Len(ids)]

\* ------------------------------------------------------------------ main
Header == <<"client", "available", "held", "total", "locked">>

Row(entry) ==
    <<entry[1], available_funds(entry[2]), held_funds(entry[2]),
      total_funds(entry[2]), is_locked(entry[2])>>

\* The observations of a transaction handed to the engine.
ObserveRun(tx) ==
    /\ appeared' = appeared \cup {tx.client}
    /\ shard' = [shard EXCEPT ![tx.client] = Client_process_transaction(@, tx)]
    /\ negative_handed' =
         (negative_handed \/ (IsDW(tx) /\ tx.payload.amount < 0))

\* One turn of the reading loop: `let tx = result?; engine.process_transaction(tx)`
ReadRecord ==
    /\ pc = "reading"
    /\ \E rec \in RawRecords :
         LET result == Transaction_deserialize(rec)
         IN  /\ malformed_seen' = (malformed_seen \/ Malformed(rec))
             /\ IF result.ok
                THEN /\ Engine_process_transaction(result.value)
                     /\ ObserveRun(result.value)
                     /\ pc' = IF panicked' THEN "panicked" ELSE "reading"
                ELSE /\ pc' = "error"
                     /\ UNCHANGED <<engine_vars, appeared, shard, negative_handed>>
    /\ UNCHANGED <<output, stream_vars, rejected_withdrawals, resolves>>

\* The input is exhausted: the writer is made and the header written.
WriteHeader ==
    /\ pc = "reading"
    /\ pc' = "writing"
    /\ output' = <<Header>>
    /\ UNCHANGED <<engine_vars, stream_vars, rejected_withdrawals, resolves,
                   appeared, shard, malformed_seen, negative_handed>>

\* The next entry of engine.accounts() is written.
WriteRow ==
    /\ pc = "writing"
    /\ Len(output) <= Len(accounts.entries)
    /\ output' = Append(output, Row(accounts.entries[Len(output)]))
    /\ UNCHANGED <<pc, engine_vars, stream_vars, rejected_withdrawals, resolves,
                   appeared, shard, malformed_seen, negative_handed>>

\* engine.accounts() is exhausted: main returns Ok(()).
Finish ==
    /\ pc = "writing"
    /\ Len(output) > Len(accounts.entries)
    /\ pc' = "done"
    /\ UNCHANGED <<output, engine_vars, stream_vars, rejected_withdrawals,
                   resolves, appeared, shard, malformed_seen, negative_handed>>

NextMain == ReadRecord \/ WriteHeader \/ WriteRow \/ Finish

SpecMain == Init /\ [][NextMain]_vars

\* ------------------------------------------------- quantities of the tests
RECURSIVE SumAmounts(_, _)
\* The sum of the amounts of the history entries whose ids are in S.
SumAmounts(txs, S) ==
    IF S = {} THEN 0
    ELSE LET id == CHOOSE x \in S : TRUE
         IN  txs[id].payload.amount + SumAmounts(txs, S \ {id})

DepositIds(txs) == {id \in DOMAIN txs : txs[id].payload.type = "Deposit"}
WithdrawalIds(txs) == {id \in DOMAIN txs : txs[id].payload.type = "Withdrawal"}

\* expected_total of the property tests: deposits minus withdrawals of history.
expected_total(txs) ==
    SumAmounts(txs, DepositIds(txs)) - SumAmounts(txs, WithdrawalIds(txs))

\* expected_held of the property tests: deposits of the disputed ids.
expected_held(cl) ==
    SumAmounts(cl.txs, cl.disputes.txs \cap DepositIds(cl.txs))

\* The Deposit and Withdrawal records a stream can hold for client c.
DWTransactions(c) ==
    {Transaction(id, c, DepositPayload(a)) : id \in TxIds, a \in Amounts}
    \cup {Transaction(id, c, WithdrawalPayload(a)) : id \in TxIds, a \in Amounts}

\* ---------------------------------------------------------------- claims

\* C1: after each transaction of a stream with non-negative amounts, every
\* account has available >= 0, held >= 0 and total_funds() = available + held.
C1_BalancesNonNegative ==
    \A c \in ClientSlots :
        LET acc == clients[c].account
        IN  /\ available_funds(acc) >= 0
            /\ held_funds(acc) >= 0
            /\ total_funds(acc) = available_funds(acc) + held_funds(acc)

\* Funds of a disputed deposit are held while a withdrawal has been accepted
\* and a later withdrawal of the largest amount would be rejected.
C1_Witness ==
    \E c \in LedgerClients :
        /\ clients[c].account.held > 0
        /\ clients[c].account.available > 0
        /\ clients[c].account.available < MaxAmount
        /\ \E w \in WithdrawalIds(clients[c].txs) :
               clients[c].txs[w].payload.amount > 0

\* C2: over streams of Deposits and Withdrawals only, after each transaction
\* held = 0, the account is not locked, total = available, and total is the sum
\* of the deposits of the history minus the sum of its withdrawals.
C2_DepositWithdrawalOnly ==
    \A c \in ClientSlots :
        LET acc == clients[c].account
        IN  /\ held_funds(acc) = 0
            /\ ~is_locked(acc)
            /\ total_funds(acc) = available_funds(acc)
            /\ total_funds(acc) = expected_total(clients[c].txs)

\* The history holds two deposits and a withdrawal that took a part of them.
C2_Witness ==
    \E c \in LedgerClients :
        /\ Cardinality(DepositIds(clients[c].txs)) >= 2
        /\ \E w \in WithdrawalIds(clients[c].txs) :
               clients[c].txs[w].payload.amount > 0
        /\ clients[c].account.available > 0

\* C3: after any stream of the five kinds, total_funds() is the sum of the
\* deposits of the history, minus the sum of its withdrawals, minus the sum of
\* the deposits whose ids are in the charged-back set.
C3_TotalIsAcceptedMovements ==
    \A c \in ClientSlots :
        LET cl == clients[c]
        IN  total_funds(cl.account) =
                expected_total(cl.txs)
                - SumAmounts(cl.txs, cl.disputes.chargebacks \cap DepositIds(cl.txs))

\* A deposit was charged back after a withdrawal had been accepted.
C3_Witness ==
    \E c \in LedgerClients :
        /\ \E id \in clients[c].disputes.chargebacks :
               clients[c].txs[id].payload.amount > 0
        /\ \E w \in WithdrawalIds(clients[c].txs) :
               clients[c].txs[w].payload.amount > 0
        /\ clients[c].account.available > 0

\* C4: after any stream, held_funds() is the sum of the deposit amounts of
\* exactly the ids that are currently in the disputed set.
C4_HeldIsDisputedDeposits ==
    \A c \in ClientSlots :
        held_funds(clients[c].account) = expected_held(clients[c])

\* One deposit is under dispute while another recorded deposit is not.
C4_Witness ==
    \E c \in LedgerClients :
        /\ \E id \in clients[c].disputes.txs :
               clients[c].txs[id].payload.amount > 0
        /\ \E id \in DepositIds(clients[c].txs) \ clients[c].disputes.txs :
               clients[c].txs[id].payload.amount > 0
        /\ clients[c].account.held > 0
        /\ clients[c].account.available > 0

\* C5: once a Chargeback has been accepted for a client, the account is locked
\* and stays locked, and every later transaction leaves the account, the
\* history and both dispute sets unchanged.
C5_LockedForever ==
    [][\A c \in ClientSlots :
         chargeback_accepted[c] =>
             /\ is_locked(clients[c].account)
             /\ is_locked(clients'[c].account)
             /\ clients'[c] = clients[c]]_vars

\* After the accepted chargeback a deposit with a fresh id arrived and was
\* ignored.
C5_Witness ==
    \E c \in LedgerClients :
        /\ chargeback_accepted[c]
        /\ clients[c].account.locked
        /\ deposits_seen[c] \ DOMAIN clients[c].txs # {}

\* C6: at every point of every stream, a client for which no Chargeback has
\* been accepted so far has an account that is not locked.
C6_NoChargebackNotLocked ==
    \A c \in ClientSlots :
        ~chargeback_accepted[c] => ~is_locked(clients[c].account)

\* Two deposits are under dispute and no chargeback has been accepted.
C6_Witness ==
    \E c \in LedgerClients :
        /\ ~chargeback_accepted[c]
        /\ Cardinality(clients[c].disputes.txs) >= 2
        /\ clients[c].account.held > 0
        /\ ~clients[c].account.locked

\* C7 as stated: after any stream, an empty disputed set (Disputes.txs)
\* implies that the account is not locked.
C7_EmptyDisputedNotLocked ==
    \A c \in ClientSlots :
        clients[c].disputes.txs = {} => ~is_locked(clients[c].account)

\* C7 as amended: after any stream, if the disputed set and the charged-back
\* set are both empty then the account is not locked.
C7_NothingDisputedNotLocked ==
    \A c \in ClientSlots :
        (clients[c].disputes.txs = {} /\ clients[c].disputes.chargebacks = {})
            => ~is_locked(clients[c].account)

\* Deposits and a withdrawal are recorded, nothing is disputed or charged
\* back, and the account is not locked.
C7_Witness ==
    \E c \in LedgerClients :
        /\ clients[c].disputes.txs = {}
        /\ clients[c].disputes.chargebacks = {}
        /\ Cardinality(DepositIds(clients[c].txs)) >= 2
        /\ WithdrawalIds(clients[c].txs) # {}
        /\ ~clients[c].account.locked

\* C8 as stated: after any stream of the five kinds, the id of every Deposit
\* of the stream is a key of the history.
C8_EveryDepositRecorded ==
    \A c \in ClientSlots : deposits_seen[c] \subseteq DOMAIN clients[c].txs

\* C8 as amended: the id of every Deposit of the stream that arrived while the
\* account was not locked is a key of the history.
C8_UnlockedDepositRecorded ==
    \A c \in ClientSlots :
        deposits_seen_unlocked[c] \subseteq DOMAIN clients[c].txs

\* A Deposit arrived under every id, one of them under an id that the history
\* records as a Withdrawal.
C8_Witness ==
    \E c \in LedgerClients :
        /\ deposits_seen_unlocked[c] = TxIds
        /\ deposits_seen_unlocked[c] \cap WithdrawalIds(clients[c].txs) # {}
        /\ ~clients[c].account.locked

\* C9: in every reachable ledger state, applying a Deposit or a Withdrawal
\* twice in a row leaves the same account, history and dispute sets as
\* applying it once.
C9_Idempotent ==
    \A c \in ClientSlots :
        \A tx \in DWTransactions(c) :
            LET once == Client_process_transaction(clients[c], tx)
            IN  Client_process_transaction(once, tx) = once

\* A record with a positive amount is in the history of an unlocked account
\* whose available funds would cover it a second time.
C9_Witness ==
    \E c \in LedgerClients :
        \E tx \in DWTransactions(c) :
            /\ tx.payload.amount > 0
            /\ tx.id \in DOMAIN clients[c].txs
            /\ clients[c].txs[tx.id] = tx
            /\ balance_changes[c][tx.id] = 1
            /\ ~clients[c].account.locked
            /\ clients[c].account.available >= tx.payload.amount

\* C10: over a whole stream, for each id at most one Deposit or Withdrawal
\* carrying that id changes the balances, and a Deposit or Withdrawal whose id
\* is already in the history is a no-op whatever its kind and amount.
C10_SingleLogicalTransaction ==
    \A c \in ClientSlots :
        /\ \A id \in TxIds : balance_changes[c][id] <= 1
        /\ \A tx \in DWTransactions(c) :
               tx.id \in DOMAIN clients[c].txs =>
                   Client_process_transaction(clients[c], tx) = clients[c]

\* A Deposit arrived under the id of a recorded Withdrawal and changed
\* nothing, while another deposit is under dispute.
C10_Witness ==
    \E c \in LedgerClients :
        \E id \in deposits_seen_unlocked[c] \cap WithdrawalIds(clients[c].txs) :
            /\ clients[c].txs[id].payload.amount > 0
            /\ balance_changes[c][id] = 1
            /\ clients[c].disputes.txs # {}
            /\ ~clients[c].account.locked
            /\ clients[c].account.available > 0

\* ------------------------------------------- the dispute lifecycle, per step
DisputeOf(c, id) == Transaction(id, c, DisputePayload)
ResolveOf(c, id) == Transaction(id, c, ResolvePayload)
ChargebackOf(c, id) == Transaction(id, c, ChargebackPayload)

\* The conditions under which Dispute(id) is accepted.
DisputeAccepted(cl, id) ==
    /\ id \in DepositIds(cl.txs)
    /\ id \notin cl.disputes.txs
    /\ id \notin cl.disputes.chargebacks
    /\ cl.account.available >= cl.txs[id].payload.amount

\* The Withdrawal records a stream can hold for client c.
WithdrawalTransactions(c) ==
    {Transaction(id, c, WithdrawalPayload(a)) : id \in TxIds, a \in Amounts}

\* A Withdrawal of more than the available funds changes nothing and is not
\* recorded.
ExceedingWithdrawalDropped(c) ==
    \A tx \in WithdrawalTransactions(c) :
        tx.payload.amount > clients[c].account.available =>
            LET after == Client_process_transaction(clients[c], tx)
            IN  /\ after.account = clients[c].account
                /\ after.txs = clients[c].txs
                /\ after.disputes = clients[c].disputes

\* C11 as stated: a Withdrawal whose amount exceeds available leaves the
\* balances unchanged and is not recorded, and any later Dispute against its
\* id is a no-op.
C11_RejectedNeverDisputed ==
    \A c \in ClientSlots :
        /\ ExceedingWithdrawalDropped(c)
        /\ \A r \in rejected_withdrawals[c] :
               Client_process_transaction(clients[c], DisputeOf(c, r[1])) =
                   clients[c]

\* C11 as amended: a Withdrawal whose amount exceeds available leaves the
\* balances unchanged and is not recorded, and a later Dispute against its id
\* is a no-op unless the id is also that of a Deposit of the history, recorded
\* before or after the Withdrawal, that is neither disputed nor charged back
\* and that available covers on the unlocked account; then the Dispute holds
\* that Deposit's amount.
C11_RejectedDisputeTakesDepositOnly ==
    \A c \in ClientSlots :
        /\ ExceedingWithdrawalDropped(c)
        /\ \A r \in rejected_withdrawals[c] :
               LET id == r[1]
                   cl == clients[c]
                   after == Client_process_transaction(cl, DisputeOf(c, id))
               IN  IF ~is_locked(cl.account) /\ DisputeAccepted(cl, id)
                   THEN after =
                          [cl EXCEPT
                             !.account.available = @ - cl.txs[id].payload.amount,
                             !.account.held = @ + cl.txs[id].payload.amount,
                             !.disputes.txs = @ \cup {id}]
                   ELSE after = cl

\* One Withdrawal exceeded available under the id of a recorded Deposit that
\* a Dispute can still take, another one under an id that the history does
\* not know.
C11_Witness ==
    \E c \in LedgerClients :
        /\ ~is_locked(clients[c].account)
        /\ \E r \in rejected_withdrawals[c] :
               /\ r[2]
               /\ DisputeAccepted(clients[c], r[1])
               /\ clients[c].txs[r[1]].payload.amount > 0
        /\ \E r \in rejected_withdrawals[c] :
               /\ ~r[2]
               /\ ~contains_key(clients[c].txs, r[1])

\* C12: on an unlocked account Dispute(id) changes the state if and only if
\* id is a Deposit of the history, neither disputed nor charged back, and
\* available covers its amount; then exactly that amount moves from available
\* to held and id becomes disputed; otherwise the whole ledger is unchanged.
C12_DisputeExactly ==
    \A c \in ClientSlots : \A id \in TxIds :
        LET cl == clients[c]
            after == Client_process_transaction(cl, DisputeOf(c, id))
        IN  ~is_locked(cl.account) =>
                IF DisputeAccepted(cl, id)
                THEN /\ after # cl
                     /\ after =
                          [cl EXCEPT
                             !.account.available = @ - cl.txs[id].payload.amount,
                             !.account.held = @ + cl.txs[id].payload.amount,
                             !.disputes.txs = @ \cup {id}]
                ELSE after = cl

\* One deposit is disputed, another deposit exceeds the available funds, and
\* the third id is a recorded withdrawal.
C12_Witness ==
    \E c \in LedgerClients :
        /\ ~clients[c].account.locked
        /\ \E id \in clients[c].disputes.txs :
               clients[c].txs[id].payload.amount > 0
        /\ \E id \in DepositIds(clients[c].txs) \ clients[c].disputes.txs :
               clients[c].txs[id].payload.amount > clients[c].account.available
        /\ WithdrawalIds(clients[c].txs) # {}
        /\ clients[c].account.available > 0

\* C13: from any reachable unlocked ledger state and for any id that is not
\* currently disputed, Dispute(id) followed at once by Resolve(id) gives back
\* exactly the state before the Dispute.
C13_DisputeResolveRoundTrip ==
    \A c \in ClientSlots : \A id \in TxIds :
        LET cl == clients[c]
            disputed == Client_process_transaction(cl, DisputeOf(c, id))
        IN  (~is_locked(cl.account) /\ id \notin cl.disputes.txs) =>
                Client_process_transaction(disputed, ResolveOf(c, id)) = cl

\* An undisputed deposit that the available funds cover stands next to a
\* deposit under dispute.
C13_Witness ==
    \E c \in LedgerClients :
        /\ ~clients[c].account.locked
        /\ \E id \in TxIds : /\ DisputeAccepted(clients[c], id)
                             /\ clients[c].txs[id].payload.amount > 0
        /\ clients[c].account.held > 0
        /\ clients[c].disputes.txs # {}

\* C14: a Resolve or a Chargeback whose id is not currently in the disputed
\* set leaves the whole ledger state unchanged.
C14_UndisputedResolveChargebackNoOp ==
    \A c \in ClientSlots : \A id \in TxIds :
        LET cl == clients[c]
        IN  id \notin cl.disputes.txs =>
                /\ Client_process_transaction(cl, ResolveOf(c, id)) = cl
                /\ Client_process_transaction(cl, ChargebackOf(c, id)) = cl

\* Funds are held for one deposit while an undisputed deposit of no more than
\* the held funds and a withdrawal are recorded.
C14_Witness ==
    \E c \in LedgerClients :
        /\ ~clients[c].account.locked
        /\ clients[c].account.held > 0
        /\ \E id \in DepositIds(clients[c].txs) \ clients[c].disputes.txs :
               /\ clients[c].txs[id].payload.amount > 0
               /\ clients[c].txs[id].payload.amount <= clients[c].account.held
        /\ WithdrawalIds(clients[c].txs) # {}

\* Deposit(1,10), Dispute(1), Chargeback(1) applied to a fresh ledger of c.
DisputeChargebackScenario(c) ==
    LET deposited == Client_process_transaction(
                         Client_default, Transaction(1, c, DepositPayload(10)))
        disputed == Client_process_transaction(deposited, DisputeOf(c, 1))
    IN  Client_process_transaction(disputed, ChargebackOf(c, 1))

\* C15: an accepted Chargeback(id) takes the deposit's amount from held,
\* leaves available unchanged, locks the account and moves id from the
\* disputed set to the charged-back set; Deposit(1,10), Dispute(1),
\* Chargeback(1) ends with available = 0, held = 0, total = 0, locked.
C15_ChargebackExactly ==
    \A c \in ClientSlots :
        /\ \A id \in clients[c].disputes.txs :
               LET cl == clients[c]
               IN  ~is_locked(cl.account) =>
                       Client_process_transaction(cl, ChargebackOf(c, id)) =
                           [cl EXCEPT
                              !.account.held = @ - cl.txs[id].payload.amount,
                              !.account.locked = TRUE,
                              !.disputes.txs = @ \ {id},
                              !.disputes.chargebacks = @ \cup {id}]
        /\ LET acc == DisputeChargebackScenario(c).account
           IN  /\ available_funds(acc) = 0
               /\ held_funds(acc) = 0
               /\ total_funds(acc) = 0
               /\ is_locked(acc)

\* A chargeback was accepted while another deposit was under dispute and
\* funds were available.
C15_Witness ==
    \E c \in LedgerClients :
        /\ chargeback_accepted[c]
        /\ clients[c].account.locked
        /\ \E id \in clients[c].disputes.chargebacks :
               clients[c].txs[id].payload.amount > 0
        /\ clients[c].disputes.txs # {}
        /\ clients[c].account.held > 0
        /\ clients[c].account.available > 0

\* ------------------------------------------------------ engine and main

\* C16: for every client id of the u16 id space, Engine::process_transaction
\* marks the id as seen and forwards the transaction to that client's ledger,
\* which starts as a fresh unlocked zero-balance ledger; no client id is
\* unroutable or makes process_transaction fault.
C16_EveryClientIdRoutable ==
    /\ ~panicked
    /\ seem_clients = appeared
    /\ \A c \in appeared : c \in DOMAIN clients
    /\ \A c \in DOMAIN clients \ appeared : clients[c] = Client_default

\* C17: after any sequence of process_transaction calls, accounts() yields
\* exactly one entry for each client id that appeared in a transaction, and no
\* entry for any other client id.
C17_AccountsAreSeenClients ==
    LET a == accounts
    IN  /\ ~a.fault
        /\ {a.entries[i][1] : i \in DOMAIN a.entries} = appeared
        /\ Len(a.entries) = Cardinality(appeared)
        /\ \A i \in DOMAIN a.entries :
               a.entries[i][2] = clients[a.entries[i][1]].account

\* C18: the state of each client after any stream is the state obtained by
\* applying only the transactions with that client id, in order, to a fresh
\* ledger; a transaction of one client changes no other client.
C18_ClientsAreShards ==
    /\ \A c \in appeared : c \in DOMAIN clients
    /\ \A c \in DOMAIN clients : clients[c] = shard[c]

\* C19: a malformed input record is not skipped; it makes the run abort with
\* an error, and no output record, not even the header, is written unless
\* every input record was parsed and processed.
C19_MalformedAborts ==
    /\ malformed_seen => (pc = "error" /\ output = <<>>)
    /\ output # <<>> =>
           /\ pc \in {"writing", "done"}
           /\ ~malformed_seen
           /\ ~panicked
           /\ output[1] = Header
    /\ pc \in {"error", "panicked"} => output = <<>>

\* Records of two clients were processed, one of them holds funds, and then a
\* malformed record stopped the run.
C19_Witness ==
    /\ malformed_seen
    /\ pc = "error"
    /\ Cardinality(appeared) >= 2
    /\ \E c \in appeared : clients[c].account.available > 0
    /\ output = <<>>

\* C20: every Deposit or Withdrawal that the input parsing hands to the engine
\* carries a non-negative amount.
C20_NoNegativeAmountHanded ==
    ~negative_handed

\* ------------------------------------------- the preconditions of Account
\* A call of an Account mutator.
Call(fn, amount) == [amount |-> amount, fn |-> fn]

\* The call of an Account mutator that Client::process_transaction makes for
\* tx in the ledger state cl, if it makes one.
Account_call(cl, tx) ==
    IF is_locked(cl.account)
    THEN None
    ELSE CASE tx.payload.type = "Deposit" ->
                IF contains_key(cl.txs, tx.id) THEN None
                ELSE Some(Call("deposit", tx.payload.amount))
           [] tx.payload.type = "Withdrawal" ->
                IF contains_key(cl.txs, tx.id) THEN None
                ELSE Some(Call("withdraw", tx.payload.amount))
           [] tx.payload.type = "Dispute" ->
                LET original_tx == get(cl.txs, tx.id)
                    amount == IF original_tx = None THEN None
                              ELSE deposited_amount(original_tx.value)
                IN  IF /\ ~is_disputed(cl.disputes, tx.id)
                       /\ original_tx # None
                       /\ amount # None
                    THEN Some(Call("hold_funds", amount.value))
                    ELSE None
           [] tx.payload.type = "Resolve" ->
                LET original_tx == disputed_transaction(cl, tx.id)
                    amount == IF original_tx = None THEN None
                              ELSE deposited_amount(original_tx.value)
                IN  IF original_tx # None /\ amount # None
                    THEN Some(Call("release_funds", amount.value))
                    ELSE None
           [] tx.payload.type = "Chargeback" ->
                LET original_tx == disputed_transaction(cl, tx.id)
                    amount == IF original_tx = None THEN None
                              ELSE deposited_amount(original_tx.value)
                IN  IF original_tx # None /\ amount # None
                    THEN Some(Call("chargeback", amount.value))
                    ELSE None

\* debug_assert_not_locked!
debug_assert_not_locked(acc) == ~is_locked(acc)

\* The debug assertions at the head of the mutator that call names all pass.
debug_assertions_pass(acc, call) ==
    /\ debug_assert_not_locked(acc)
    /\ call.fn \in {"release_funds", "chargeback"} => acc.held >= call.amount

\* C21: over every stream with non-negative amounts, process_transaction
\* never calls an Account mutator on a locked account and never calls
\* release_funds or chargeback with an amount greater than held, so that no
\* debug assertion of Account fires.
C21_NoAssertionFires ==
    \A c \in ClientSlots : \A tx \in LedgerTransactions(c) :
        LET call == Account_call(clients[c], tx)
        IN  call # None => debug_assertions_pass(clients[c].account, call.value)

\* The account is locked with funds still held for a disputed deposit, and
\* the deposit that was charged back is larger than what is held.
C21_Witness ==
    \E c \in LedgerClients :
        /\ is_locked(clients[c].account)
        /\ \E id \in clients[c].disputes.txs :
               clients[c].txs[id].payload.amount > 0
        /\ \E id \in clients[c].disputes.chargebacks :
               clients[c].txs[id].payload.amount > clients[c].account.held

\* ------------------------------------------------- the dispute-tracking sets
\* C22: in every reachable ledger state the disputed set and the charged-back
\* set are disjoint and a Dispute of a charged-back id changes nothing; an id
\* that has entered the charged-back set never leaves it and never re-enters
\* the disputed set.
C22_ChargedBackIsFinal ==
    /\ [](\A c \in ClientSlots :
            /\ clients[c].disputes.txs \cap clients[c].disputes.chargebacks = {}
            /\ \A id \in clients[c].disputes.chargebacks :
                   process_dispute(clients[c], DisputeOf(c, id)) = clients[c])
    /\ [][\A c \in ClientSlots :
            /\ clients[c].disputes.chargebacks \subseteq clients'[c].disputes.chargebacks
            /\ clients[c].disputes.chargebacks \cap clients'[c].disputes.txs = {}]_vars

\* A deposit was charged back while another one stays disputed, and the
\* available funds would cover a new hold of the charged-back deposit.
C22_Witness ==
    \E c \in LedgerClients :
        /\ clients[c].disputes.txs # {}
        /\ \E id \in clients[c].disputes.chargebacks :
               /\ clients[c].txs[id].payload.amount > 0
               /\ clients[c].account.available >= clients[c].txs[id].payload.amount

\* C23: for every client, at most one transaction id is ever in the
\* charged-back set, and the charged-back set is non-empty exactly when the
\* account is locked.
C23_OneChargebackIffLocked ==
    /\ [](\A c \in ClientSlots :
            /\ Cardinality(clients[c].disputes.chargebacks) <= 1
            /\ clients[c].disputes.chargebacks # {} <=> is_locked(clients[c].account))
    /\ [][\A c \in ClientSlots :
            clients[c].disputes.chargebacks # {} =>
                clients'[c].disputes.chargebacks = clients[c].disputes.chargebacks]_vars

\* One deposit was charged back while two more deposits stay disputed with
\* their funds held.
C23_Witness ==
    \E c \in LedgerClients :
        /\ Cardinality(clients[c].disputes.chargebacks) = 1
        /\ Cardinality(clients[c].disputes.txs) >= 2
        /\ clients[c].account.held >= 2
        /\ is_locked(clients[c].account)

\* Deposit(1,10), Withdrawal(2,5), Dispute(2) applied to a fresh ledger of c.
DisputeWithdrawalScenario(c) ==
    LET deposited == Client_process_transaction(
                         Client_default, Transaction(1, c, DepositPayload(10)))
        withdrawn == Client_process_transaction(
                         deposited, Transaction(2, c, WithdrawalPayload(5)))
    IN  Client_process_transaction(withdrawn, DisputeOf(c, 2))

\* C24: in every reachable ledger state, every id in the disputed set or in
\* the charged-back set is the id of a Deposit recorded in the history; the id
\* of a Withdrawal is never disputed or charged back.
C24_OnlyDepositsDisputed ==
    \A c \in ClientSlots :
        LET cl == clients[c]
        IN  /\ cl.disputes.txs \cup cl.disputes.chargebacks \subseteq DepositIds(cl.txs)
            /\ \A id \in WithdrawalIds(cl.txs) :
                   /\ ~is_disputed(cl.disputes, id)
                   /\ Client_process_transaction(cl, DisputeOf(c, id)) = cl
                   /\ Client_process_transaction(cl, ChargebackOf(c, id)) = cl
            /\ LET after == DisputeWithdrawalScenario(c)
               IN  /\ total_funds(after.account) = 5
                   /\ held_funds(after.account) = 0
                   /\ ~is_locked(after.account)
                   /\ ~is_disputed(after.disputes, 2)
                   /\ contains_key(after.txs, 1) /\ contains_key(after.txs, 2)

\* An unlocked account with a disputed deposit and a recorded withdrawal of
\* an amount that the available funds would cover.
C24_Witness ==
    \E c \in LedgerClients :
        /\ ~is_locked(clients[c].account)
        /\ clients[c].disputes.txs # {}
        /\ \E id \in WithdrawalIds(clients[c].txs) :
               /\ clients[c].txs[id].payload.amount > 0
               /\ clients[c].account.available >= clients[c].txs[id].payload.amount

\* ------------------------------------------- Account::withdraw, hold_funds
\* The amounts the mutators are called with: up to one above the largest
\* total a stream can build.
CallAmounts == 0..(MaxTxId * MaxAmount + 1)

\* test_withdraw: deposit(100), withdraw(50), withdraw(60).
test_withdraw ==
    LET first == withdraw(deposit(Account_default, 100), 50)
        second == withdraw(first.account, 60)
    IN  /\ first.ok
        /\ available_funds(first.account) = 50
        /\ held_funds(first.account) = 0
        /\ total_funds(first.account) = 50
        /\ ~second.ok
        /\ available_funds(second.account) = 50

\* test_hold_funds: deposit(100), hold_funds(30), hold_funds(80).
test_hold_funds ==
    LET first == hold_funds(deposit(Account_default, 100), 30)
        second == hold_funds(first.account, 80)
    IN  /\ first.ok
        /\ available_funds(first.account) = 70
        /\ held_funds(first.account) = 30
        /\ total_funds(first.account) = 100
        /\ ~second.ok
        /\ available_funds(second.account) = 70

\* C25: on an unlocked account withdraw(amount) and hold_funds(amount) succeed
\* exactly when available >= amount; on failure they report an error and leave
\* available, held and locked unchanged; on success withdraw lowers available
\* and total by amount while hold_funds moves amount from available to held
\* with total unchanged; funds that are held cannot be withdrawn.
C25_WithdrawHoldExactly ==
    /\ test_withdraw
    /\ test_hold_funds
    /\ \A c \in ClientSlots : \A amount \in CallAmounts :
           LET acc == clients[c].account
               w == withdraw(acc, amount)
               h == hold_funds(acc, amount)
           IN  ~is_locked(acc) =>
                   /\ w.ok <=> available_funds(acc) >= amount
                   /\ h.ok <=> available_funds(acc) >= amount
                   /\ ~w.ok => w.account = acc
                   /\ ~h.ok => h.account = acc
                   /\ w.ok =>
                          /\ available_funds(w.account) = available_funds(acc) - amount
                          /\ held_funds(w.account) = held_funds(acc)
                          /\ total_funds(w.account) = total_funds(acc) - amount
                          /\ is_locked(w.account) = is_locked(acc)
                   /\ h.ok =>
                          /\ available_funds(h.account) = available_funds(acc) - amount
                          /\ held_funds(h.account) = held_funds(acc) + amount
                          /\ total_funds(h.account) = total_funds(acc)
                          /\ is_locked(h.account) = is_locked(acc)
                   /\ amount > available_funds(acc) => ~w.ok

\* An unlocked account whose total funds cover an amount that its available
\* funds alone do not.
C25_Witness ==
    \E c \in LedgerClients : \E amount \in CallAmounts :
        LET acc == clients[c].account
        IN  /\ ~is_locked(acc)
            /\ available_funds(acc) > 0
            /\ held_funds(acc) > 0
            /\ amount > available_funds(acc)
            /\ amount <= total_funds(acc)
            /\ ~withdraw(acc, amount).ok
            /\ hold_funds(acc, available_funds(acc)).ok

\* ------------------------------------------------------------ the history
\* The conditions under which a Deposit or Withdrawal is accepted.
Accepted(cl, tx) ==
    /\ ~is_locked(cl.account)
    /\ ~contains_key(cl.txs, tx.id)
    /\ tx.payload.type = "Withdrawal" => cl.account.available >= tx.payload.amount

\* C26: the history is append-only: an entry is added only by an accepted
\* Deposit or an accepted Withdrawal, under its own id; Dispute, Resolve and
\* Chargeback never add or change entries; an entry, once recorded, is never
\* overwritten or removed.
C26_HistoryAppendOnly ==
    /\ [](\A c \in ClientSlots :
            LET cl == clients[c]
            IN  /\ \A tx \in DWTransactions(c) :
                       Client_process_transaction(cl, tx).txs =
                           IF Accepted(cl, tx) THEN insert(cl.txs, tx.id, tx)
                           ELSE cl.txs
                /\ \A id \in TxIds :
                       /\ Client_process_transaction(cl, DisputeOf(c, id)).txs = cl.txs
                       /\ Client_process_transaction(cl, ResolveOf(c, id)).txs = cl.txs
                       /\ Client_process_transaction(cl, ChargebackOf(c, id)).txs = cl.txs
                /\ \A id \in DOMAIN cl.txs :
                       /\ cl.txs[id].id = id
                       /\ IsDW(cl.txs[id]))
    /\ [][\A c \in ClientSlots :
            /\ \A id \in DOMAIN clients[c].txs :
                   /\ id \in DOMAIN clients'[c].txs
                   /\ clients'[c].txs[id] = clients[c].txs[id]
            /\ Cardinality(DOMAIN clients'[c].txs \ DOMAIN clients[c].txs) <= 1]_vars

\* Every id of the streams is recorded, a deposit and a withdrawal among
\* them, and a deposit is under dispute on the unlocked account.
C26_Witness ==
    \E c \in LedgerClients :
        /\ DOMAIN clients[c].txs = TxIds
        /\ \E id \in WithdrawalIds(clients[c].txs) :
               clients[c].txs[id].payload.amount > 0
        /\ \E id \in clients[c].disputes.txs :
               clients[c].txs[id].payload.amount > 0
        /\ ~is_locked(clients[c].account)

\* ------------------------------------------------- repeated dispute cycles
\* C27: after Dispute(id) and Resolve(id) on an unlocked account, a further
\* Dispute(id) is accepted under the same conditions as the first one and
\* holds the deposit amount again when available suffices, however many times
\* the id has been disputed and resolved before.
C27_DisputeAgainAfterResolve ==
    /\ \A c \in ClientSlots : \A id \in CycleTxIds :
           LET cl == clients[c]
               again == Client_process_transaction(cl, DisputeOf(c, id))
           IN  (/\ resolves[c][id] > 0
                /\ ~is_locked(cl.account)
                /\ id \notin cl.disputes.txs
                /\ available_funds(cl.account) >= cl.txs[id].payload.amount) =>
                   /\ id \in again.disputes.txs
                   /\ held_funds(again.account) =
                          held_funds(cl.account) + cl.txs[id].payload.amount
                   /\ available_funds(again.account) =
                          available_funds(cl.account) - cl.txs[id].payload.amount
    /\ \A c \in ClientSlots : \A id \in TxIds :
           LET cl == clients[c]
               disputed == Client_process_transaction(cl, DisputeOf(c, id))
               resolved == Client_process_transaction(disputed, ResolveOf(c, id))
               again == Client_process_transaction(resolved, DisputeOf(c, id))
           IN  (~is_locked(cl.account) /\ id \notin cl.disputes.txs) =>
                   /\ DisputeAccepted(resolved, id) <=> DisputeAccepted(cl, id)
                   /\ again = disputed
                   /\ DisputeAccepted(cl, id) =>
                          /\ id \in again.disputes.txs
                          /\ held_funds(again.account) =
                                 held_funds(cl.account) + cl.txs[id].payload.amount
                          /\ available_funds(again.account) =
                                 available_funds(cl.account) - cl.txs[id].payload.amount

\* A deposit whose dispute was resolved MaxCycles times is undisputed again,
\* and the available funds cover a further hold of it.
C27_Witness ==
    \E c \in LedgerClients : \E id \in CycleTxIds :
        /\ resolves[c][id] = MaxCycles
        /\ DisputeAccepted(clients[c], id)
        /\ clients[c].txs[id].payload.amount > 0
        /\ ~is_locked(clients[c].account)

====
